---------------------------- MODULE Spec2Model ----------------------------
(***************************************************************************)
(* A model of lkpy's MKL sparse-matrix binding (lenskit/_mkl_ops.py) and   *)
(* of the item-item k-NN recommender (lenskit/algorithms/item_knn.py).     *)
(*                                                                         *)
(* Numbers are integers: float64 values are modelled by exact integer      *)
(* arithmetic, a quotient by the pair <<numerator, denominator>>.  NumPy   *)
(* and pandas containers are sequences; Python's 0-based index k is the    *)
(* sequence position k + 1.                                                *)
(*                                                                         *)
(* The module holds five specifications over disjoint groups of variables: *)
(*   SpecExport   SparseM.from_csr / SparseM.export                        *)
(*   SpecSyrk     csr_syrk and the lifetime of the native handles          *)
(*   SpecMultVec  SparseM.mult_vec                                         *)
(*   SpecBuild    ItemItem._py_matrix (the similarity builder)             *)
(*   SpecPredict  ItemItem.predict                                         *)
(***************************************************************************)
EXTENDS Integers, Sequences, FiniteSets, TLC

VARIABLES
    e_pc, e_csr, e_created, e_rvs, e_res,       \* SpecExport
    s_pc, s_csr, s_src, s_m2, s_mats, s_log, s_exc, s_result,   \* SpecSyrk
    v_pc, v_args, v_heap, v_y, v_ybefore, v_passed, v_ret, v_exc,   \* SpecMultVec
    b_pc, b_uir, b_self, b_nbrs,                \* SpecBuild
    p_pc, p_self, p_model, p_model0, p_args, p_ratings, p_ratings0,
    p_status, p_results                         \* SpecPredict

exportVars == <<e_pc, e_csr, e_created, e_rvs, e_res>>
syrkVars == <<s_pc, s_csr, s_src, s_m2, s_mats, s_log, s_exc, s_result>>

multVecVars == <<v_pc, v_args, v_heap, v_y, v_ybefore, v_passed, v_ret, v_exc>>

buildVars == <<b_pc, b_uir, b_self, b_nbrs>>

predictVars == <<p_pc, p_self, p_model, p_model0, p_args, p_ratings, p_ratings0,
                 p_status, p_results>>

vars == <<exportVars, syrkVars, multVecVars, buildVars, predictVars>>

\* what each specification leaves alone
notExport == <<syrkVars, multVecVars, buildVars, predictVars>>
notSyrk == <<exportVars, multVecVars, buildVars, predictVars>>
notMultVec == <<exportVars, syrkVars, buildVars, predictVars>>
notBuild == <<exportVars, syrkVars, multVecVars, predictVars>>
notPredict == <<exportVars, syrkVars, multVecVars, buildVars>>

---------------------------------------------------------------------------
(* Bounds of the model.                                                    *)

\* matrices handed to from_csr / native layouts handed to export
MaxRows == 2
MaxStore == 3
NCols == 2
MaxVal == 2
\* matrices handed to csr_syrk
SyrkMaxRows == 1
SyrkMaxNnz == 2
\* the largest status code a native call returns
MaxStatus == 7
\* the largest factor alpha, beta of mult_vec
MaxFactor == 2
\* normalized ratings range over -1 .. MaxNorm
MaxNorm == 1
\* min_similarity is None or in 0 .. MaxMinSim, save_neighbors None or in 0 .. MaxSave
MaxMinSim == 1
MaxSave == 2
\* max_neighbors is None or in 1 .. MaxNbrs, min_neighbors in 1 .. MaxMinNbrs
MaxNbrs == 2
MaxMinNbrs == 2

\* the values of a model handed to predict: similarities, item means, ratings
SimValues == {1, 2}
MeanValues == {0, 1}
RatingValues == {1, 2}

\* the item and user identifiers of the recommender's inputs
Items == {1, 2, 3}
Users == {1, 2}

---------------------------------------------------------------------------
(* Python / NumPy helpers.                                                 *)

Min(a, b) == IF a < b THEN a ELSE b

RECURSIVE SumSeq(_)
SumSeq(s) == IF s = <<>> THEN 0 ELSE Head(s) + SumSeq(Tail(s))

\* a[lo:hi] for 0 <= lo, 0 <= hi: the bounds are clipped to len(a)
PySlice(a, lo, hi) ==
    LET l == Min(lo, Len(a))
        h == Min(hi, Len(a))
    IN  IF l >= h THEN <<>> ELSE SubSeq(a, l + 1, h)

\* whether  dst[rs:re] = rhs  is accepted: NumPy broadcasts the right-hand side,
\* so its length is that of the target or 1
CanAssign(n, rhs) == Len(rhs) = n \/ Len(rhs) = 1

\* dst after  dst[rs:re] = rhs  (0 <= rs <= re <= len(dst), CanAssign holds)
SliceAssign(dst, rs, re, rhs) ==
    [k \in 1..Len(dst) |->
        IF k > rs /\ k <= re
        THEN IF Len(rhs) = re - rs THEN rhs[k - rs] ELSE rhs[1]
        ELSE dst[k]]

---------------------------------------------------------------------------
(* lenskit.matrix.CSR (not among the source files; from the data model).   *)

\* what freshly allocated, never written storage reads as
Uninit == -1

NoCSR == [nrows |-> 0, ncols |-> 0, rowptrs |-> <<0>>, colinds |-> <<>>, values |-> <<>>]

\* rowptrs of CSR.empty: the prefix sums of the row sizes
RECURSIVE PrefixSums(_, _)
PrefixSums(sizes, acc) ==
    IF sizes = <<>> THEN <<acc>>
    ELSE <<acc>> \o PrefixSums(Tail(sizes), acc + Head(sizes))

CSR_empty(nrows, ncols, sizes) ==
    LET nnz == SumSeq(sizes)
    IN  [nrows |-> nrows, ncols |-> ncols, rowptrs |-> PrefixSums(sizes, 0),
         colinds |-> [k \in 1..nnz |-> Uninit], values |-> [k \in 1..nnz |-> Uninit]]

CSR_nnz(csr) == csr.rowptrs[csr.nrows + 1]

\* row_extent(i) for 0 <= i < nrows: <<start, end>>
CSR_row_extent(csr, i) == <<csr.rowptrs[i + 1], csr.rowptrs[i + 2]>>

\* the (column, value) pairs row i stores, as a sequence and as a set
CSR_row(csr, i) ==
    LET ext == CSR_row_extent(csr, i)
    IN  [k \in 1..(ext[2] - ext[1]) |->
            <<csr.colinds[ext[1] + k], csr.values[ext[1] + k]>>]

CSR_row_set(csr, i) == {CSR_row(csr, i)[k] : k \in DOMAIN CSR_row(csr, i)}

\* all well-formed CSR matrices with at most maxRows rows and maxNnz entries
MonotoneRowptrs(n, maxNnz) ==
    {rp \in [1..(n + 1) -> 0..maxNnz] :
        rp[1] = 0 /\ \A k \in 1..n : rp[k] <= rp[k + 1]}

CSRSet(maxRows, maxNnz) ==
    UNION {UNION {
        {[nrows |-> n, ncols |-> NCols, rowptrs |-> rp, colinds |-> ci, values |-> vs] :
            ci \in [1..rp[n + 1] -> 0..(NCols - 1)], vs \in [1..rp[n + 1] -> 1..MaxVal]} :
        rp \in MonotoneRowptrs(n, maxNnz)} : n \in 0..maxRows}

---------------------------------------------------------------------------
(* The native library (mkl_ops.c is not among the source files; from the   *)
(* ABI contract).  A native matrix is the struct lk_mkl_spexport reports.  *)

NoStruct == [nrows |-> 0, ncols |-> 0, row_sp |-> <<>>, row_ep |-> <<>>,
             colinds |-> <<>>, values |-> <<>>]

\* lk_mkl_spcreate keeps the three arrays of the CSR: row i starts at rowptrs[i]
\* and ends at rowptrs[i + 1]
lk_mkl_spcreate(csr) ==
    [nrows |-> csr.nrows, ncols |-> csr.ncols,
     row_sp |-> [i \in 1..csr.nrows |-> csr.rowptrs[i]],
     row_ep |-> [i \in 1..csr.nrows |-> csr.rowptrs[i + 1]],
     colinds |-> csr.colinds, values |-> csr.values]

\* lk_mkl_spexport of a native matrix; a failed export reports nrows < 0
lk_mkl_spexport(mat, ok) ==
    IF ok THEN mat ELSE [NoStruct EXCEPT !.nrows = -1]

\* every native layout: rows anywhere in the storage, in any order
NativeLayouts(maxRows, maxStore) ==
    UNION {UNION {
        {[nrows |-> n, ncols |-> NCols, row_sp |-> sp, row_ep |-> ep,
          colinds |-> ci, values |-> vs] :
            sp \in {s \in [1..n -> 0..L] : \A i \in 1..n : s[i] <= ep[i]},
            ci \in [1..L -> 0..(NCols - 1)], vs \in [1..L -> 1..MaxVal]} :
        ep \in [1..n -> 0..L]} : n \in 0..maxRows, L \in 0..maxStore}

---------------------------------------------------------------------------
(* SparseM.export                                                          *)

Raised(what) == [status |-> what, csr |-> NoCSR]
Returned(csr) == [status |-> "ok", csr |-> csr]

\* the loop of export, rows i .. nrows - 1:
\*     rs, re = csr.row_extent(i)
\*     csr.colinds[rs:re] = cis[sp[i]:ep[i]]; csr.values[rs:re] = vs[sp[i]:ep[i]]
RECURSIVE ExportRows(_, _, _, _, _)
ExportRows(csr, rvs, cis, vs, i) ==
    IF i >= rvs.nrows THEN Returned(csr)
    ELSE LET ext == CSR_row_extent(csr, i)
             cslice == PySlice(cis, rvs.row_sp[i + 1], rvs.row_ep[i + 1])
             vslice == PySlice(vs, rvs.row_sp[i + 1], rvs.row_ep[i + 1])
         IN  IF ~CanAssign(ext[2] - ext[1], cslice) THEN Raised("ValueError")
             ELSE ExportRows(
                    [csr EXCEPT !.colinds = SliceAssign(@, ext[1], ext[2], cslice),
                                !.values = SliceAssign(@, ext[1], ext[2], vslice)],
                    rvs, cis, vs, i + 1)

\* the array np.frombuffer makes of the first `end` elements of native storage
FromBuffer(store, end) == SubSeq(store, 1, end)

export(rvs) ==
    IF rvs.nrows < 0 THEN Raised("RuntimeError")
    ELSE IF rvs.nrows = 0 THEN Raised("IndexError")       \* ep[-1] of an empty array
    ELSE LET sp == rvs.row_sp
             ep == rvs.row_ep
             end == ep[rvs.nrows]
             cis == FromBuffer(rvs.colinds, end)
             vs == FromBuffer(rvs.values, end)
             sizes == [i \in 1..rvs.nrows |-> ep[i] - sp[i]]
             csr == CSR_empty(rvs.nrows, rvs.ncols, sizes)
         IN  IF SumSeq(sizes) # CSR_nnz(csr) THEN Raised("AssertionError")
             ELSE ExportRows(csr, rvs, cis, vs, 0)

---------------------------------------------------------------------------
(* SpecExport: one export of a native layout, or one round trip            *)
(* SparseM.from_csr(M).export().                                           *)

InitExport ==
    /\ e_pc = "ready"
    /\ e_csr = NoCSR
    /\ e_created = FALSE
    /\ e_rvs = NoStruct
    /\ e_res = Raised("none")

\* export() of a handle whose native matrix has layout `layout`
ExportNative(layout) ==
    /\ e_pc = "ready"
    /\ e_pc' = "exported"
    /\ e_rvs' = layout
    /\ e_res' = export(layout)
    /\ UNCHANGED <<e_csr, e_created>>
    /\ UNCHANGED notExport

\* from_csr: a null handle raises RuntimeError, otherwise the wrapper holds it
from_csr(csr, ptr) ==
    IF ptr = 0 THEN [status |-> "RuntimeError", ptr |-> 0]
    ELSE [status |-> "ok", ptr |-> ptr]

\* SparseM.from_csr(M).export(); `ptr` is what lk_mkl_spcreate returns
RoundTrip(M, ptr) ==
    /\ e_pc = "ready"
    /\ e_pc' = "roundtrip"
    /\ e_csr' = M
    /\ LET m == from_csr(M, ptr)
       IN  IF m.status # "ok"
           THEN /\ e_created' = FALSE
                /\ e_rvs' = NoStruct
                /\ e_res' = Raised(m.status)
           ELSE /\ e_created' = TRUE
                /\ e_rvs' = lk_mkl_spexport(lk_mkl_spcreate(M), TRUE)
                /\ e_res' = export(e_rvs')
    /\ UNCHANGED notExport

NextExport ==
    \/ e_pc = "ready" /\ \E layout \in NativeLayouts(MaxRows, MaxStore) : ExportNative(layout)
    \/ e_pc = "ready" /\ \E M \in CSRSet(MaxRows, MaxStore), ptr \in 0..1 : RoundTrip(M, ptr)


---------------------------------------------------------------------------
(* Properties of export.                                                   *)

\* row i of the native layout: the (column, value) pairs at offsets
\* [row_sp[i], row_ep[i]) of native storage, in storage order
NativeRow(rvs, i) ==
    [k \in 1..(rvs.row_ep[i + 1] - rvs.row_sp[i + 1]) |->
        <<rvs.colinds[rvs.row_sp[i + 1] + k], rvs.values[rvs.row_sp[i + 1] + k]>>]

SameShape(a, b) == a.nrows = b.nrows /\ a.ncols = b.ncols

\* C8: export(create(M)) succeeds for every CSR matrix M, zero-row matrices
\* included, and gives a matrix of M's shape whose every row holds the same set
\* of (column, value) pairs as M's.
C8_RoundTrip ==
    (e_pc = "roundtrip" /\ e_created) =>
        /\ e_res.status = "ok"
        /\ SameShape(e_res.csr, e_csr)
        /\ \A i \in 0..(e_csr.nrows - 1) :
               CSR_row_set(e_res.csr, i) = CSR_row_set(e_csr, i)

\* the same round trip, for matrices with at least one row
RoundTripWithRows ==
    (e_pc = "roundtrip" /\ e_created /\ e_csr.nrows >= 1) =>
        /\ e_res.status = "ok"
        /\ SameShape(e_res.csr, e_csr)
        /\ \A i \in 0..(e_csr.nrows - 1) : CSR_row(e_res.csr, i) = CSR_row(e_csr, i)

\* C9: for every native layout with nrows >= 0 and row_sp[i] <= row_ep[i], rows
\* stored anywhere and in any order, export returns a CSR whose row i has size
\* row_ep[i] - row_sp[i], whose nnz is the sum of the sizes, and whose row i
\* holds the native entries at offsets [row_sp[i], row_ep[i]) in that order.
C9_ExportLayout ==
    (e_pc = "exported" /\ e_rvs.nrows >= 0) =>
        /\ e_res.status = "ok"
        /\ SameShape(e_res.csr, e_rvs)
        /\ CSR_nnz(e_res.csr) =
               SumSeq([i \in 1..e_rvs.nrows |-> e_rvs.row_ep[i] - e_rvs.row_sp[i]])
        /\ \A i \in 0..(e_rvs.nrows - 1) : CSR_row(e_res.csr, i) = NativeRow(e_rvs, i)

\* the layouts export does handle: at least one row, and the last row ends
\* where the used storage ends
LastRowEndsStorage(rvs) ==
    /\ rvs.nrows >= 1
    /\ \A i \in 1..rvs.nrows : rvs.row_ep[i] <= rvs.row_ep[rvs.nrows]

ExportLayoutLastRowLast ==
    (e_pc = "exported" /\ LastRowEndsStorage(e_rvs)) =>
        /\ e_res.status = "ok"
        /\ \A i \in 0..(e_rvs.nrows - 1) : CSR_row(e_res.csr, i) = NativeRow(e_rvs, i)

\* a row copied wrongly without any error: a clipped one-element slice is
\* broadcast over a longer row
SilentlyWrongRow ==
    /\ e_pc = "exported"
    /\ e_res.status = "ok"
    /\ \E i \in 0..(e_rvs.nrows - 1) : CSR_row(e_res.csr, i) # NativeRow(e_rvs, i)


---------------------------------------------------------------------------
(* The native operations on a handle (from the ABI contract).              *)

RECURSIVE SumOver(_, _)
SumOver(S, f) ==
    IF S = {} THEN 0
    ELSE LET x == CHOOSE y \in S : TRUE IN f[x] + SumOver(S \ {x}, f)

RECURSIVE Concat(_)
Concat(ss) == IF ss = <<>> THEN <<>> ELSE Head(ss) \o Concat(Tail(ss))

\* the dense entry (i, k) of a native matrix: duplicates add up
Dense(mat, i, k) ==
    LET offs == {o \in (mat.row_sp[i + 1] + 1)..mat.row_ep[i + 1] : mat.colinds[o] = k}
    IN  SumOver(offs, mat.values)

\* the three-array native matrix with the given rows of (column, value) pairs
FromRows(nrows, ncols, rows) ==
    LET ptrs == PrefixSums([i \in 1..nrows |-> Len(rows[i])], 0)
        flat == Concat(rows)
    IN  [nrows |-> nrows, ncols |-> ncols,
         row_sp |-> [i \in 1..nrows |-> ptrs[i]],
         row_ep |-> [i \in 1..nrows |-> ptrs[i + 1]],
         colinds |-> [k \in 1..Len(flat) |-> flat[k][1]],
         values |-> [k \in 1..Len(flat) |-> flat[k][2]]]

\* lk_mkl_sporder: every row sorted by column, duplicates merged
lk_mkl_sporder(mat) ==
    FromRows(mat.nrows, mat.ncols,
        [i \in 1..mat.nrows |->
            SelectSeq([k \in 1..mat.ncols |-> <<k - 1, Dense(mat, i - 1, k - 1)>>],
                      LAMBDA e : \E o \in (mat.row_sp[i] + 1)..mat.row_ep[i] :
                                    mat.colinds[o] = e[1])])

\* lk_mkl_spsyrk: the upper triangle of A * A^T, zero products not stored
lk_mkl_spsyrk(mat) ==
    LET Dot(i, j) == SumOver(0..(mat.ncols - 1),
                        [k \in 0..(mat.ncols - 1) |-> Dense(mat, i, k) * Dense(mat, j, k)])
    IN  FromRows(mat.nrows, mat.nrows,
            [i \in 1..mat.nrows |->
                SelectSeq([j \in 1..(mat.nrows - i + 1) |-> <<i + j - 2, Dot(i - 1, i + j - 2)>>],
                          LAMBDA e : e[2] # 0)])

---------------------------------------------------------------------------
(* _mkl_check_return, SparseM.__del__                                      *)

NULL == 0

mkl_errors ==
    <<"SPARSE_STATUS_SUCCESS", "SPARSE_STATUS_NOT_INITIALIZED",
      "SPARSE_STATUS_ALLOC_FAILED", "SPARSE_STATUS_INVALID_VALUE",
      "SPARSE_STATUS_EXECUTION_FAILED", "SPARSE_STATUS_INTERNAL_ERROR",
      "SPARSE_STATUS_NOT_SUPPORTED">>

NoError == [type |-> "none", call |-> "", code |-> 0, desc |-> ""]

\* a check that raises for the listed status codes only
CheckRaisesKnownOnly(rv) == rv > 0 /\ rv < Len(mkl_errors)

\* whether _mkl_check_return(rv) raises:  if rv:
CheckRaises(rv) == rv # 0

\* the exception _mkl_check_return(rv, call) raises, NoError when it returns
mkl_check_return(rv, call) ==
    IF CheckRaises(rv)
    THEN [type |-> "RuntimeError", call |-> call, code |-> rv,
          desc |-> IF rv >= 0 /\ rv < Len(mkl_errors) THEN mkl_errors[rv + 1]
                   ELSE "unknown"]
    ELSE NoError

StatusCodes == {-1} \cup 0..MaxStatus

\* a SparseM wrapper a local name is bound to, or no wrapper
Unbound == [bound |-> FALSE, ptr |-> NULL]
Wrapper(ptr) == [bound |-> TRUE, ptr |-> ptr]

\* a native call, as the library sees it
Event(op, h, rv) == [op |-> op, h |-> h, rv |-> rv]

\* a finalizer that frees whatever the wrapper holds
DelFreesAlways(obj) ==
    IF obj.bound THEN <<Event("free", obj.ptr, 0)>> ELSE <<>>

\* the native calls SparseM.__del__ makes when the wrapper `obj` is collected
SparseM_del(obj) ==
    IF obj.bound /\ obj.ptr # NULL THEN <<Event("free", obj.ptr, 0)>> ELSE <<>>

---------------------------------------------------------------------------
(* SpecSyrk: one call of csr_syrk, statement by statement.  A wrapper is   *)
(* collected when its last reference goes: at `del src`, when the frame of *)
(* a returned call is dropped, and, for a call that raised, when the       *)
(* traceback that holds the frame is dropped.                              *)

Handles == 1..2
NewHandle(log) == 1 + Cardinality({k \in DOMAIN log :
                        log[k].op \in {"create", "syrk"} /\ log[k].rv # NULL})

InitSyrk ==
    /\ s_pc = "idle"
    /\ s_csr = NoCSR
    /\ s_src = Unbound
    /\ s_m2 = Unbound
    /\ s_mats = [h \in Handles |-> NoStruct]
    /\ s_log = <<>>
    /\ s_exc = NoError
    /\ s_result = NoCSR

\* src = SparseM.from_csr(csr); `ok` is whether lk_mkl_spcreate gives a handle
SyrkCreate(csr, ok) ==
    /\ s_pc = "idle"
    /\ s_csr' = csr
    /\ LET ptr == IF ok THEN NewHandle(s_log) ELSE NULL
           m == from_csr(csr, ptr)
       IN  /\ s_log' = Append(s_log, Event("create", NULL, ptr))
           /\ s_src' = Wrapper(ptr)
           /\ IF m.status = "ok"
              THEN /\ s_pc' = "order"
                   /\ s_mats' = [s_mats EXCEPT ![ptr] = lk_mkl_spcreate(csr)]
                   /\ s_exc' = NoError
              ELSE /\ s_pc' = "raised"
                   /\ s_exc' = [NoError EXCEPT !.type = "RuntimeError", !.call = "create"]
                   /\ UNCHANGED s_mats
    /\ UNCHANGED <<s_m2, s_result>>
    /\ UNCHANGED notSyrk

\* rv = lk_mkl_sporder(src.ptr); _mkl_check_return(rv, 'mkl_sparse_order')
SyrkOrder(rv) ==
    /\ s_pc = "order"
    /\ s_log' = Append(s_log, Event("order", s_src.ptr, rv))
    /\ s_mats' = IF rv = 0 THEN [s_mats EXCEPT ![s_src.ptr] = lk_mkl_sporder(@)]
                 ELSE s_mats
    /\ s_exc' = mkl_check_return(rv, "mkl_sparse_order")
    /\ s_pc' = IF s_exc'.type = "none" THEN "syrk" ELSE "raised"
    /\ UNCHANGED <<s_csr, s_src, s_m2, s_result>>
    /\ UNCHANGED notSyrk

\* m2 = SparseM(); m2.ptr = lk_mkl_spsyrk(src.ptr); raise ValueError if null
SyrkMultiply(ok) ==
    /\ s_pc = "syrk"
    /\ LET ptr == IF ok THEN NewHandle(s_log) ELSE NULL
       IN  /\ s_log' = Append(s_log, Event("syrk", s_src.ptr, ptr))
           /\ s_m2' = Wrapper(ptr)
           /\ IF ptr # NULL
              THEN /\ s_pc' = "del_src"
                   /\ s_mats' = [s_mats EXCEPT ![ptr] = lk_mkl_spsyrk(s_mats[s_src.ptr])]
                   /\ s_exc' = NoError
              ELSE /\ s_pc' = "raised"
                   /\ s_exc' = [NoError EXCEPT !.type = "ValueError", !.call = "syrk"]
                   /\ UNCHANGED s_mats
    /\ UNCHANGED <<s_csr, s_src, s_result>>
    /\ UNCHANGED notSyrk

\* del src
SyrkDelSrc ==
    /\ s_pc = "del_src"
    /\ s_log' = s_log \o SparseM_del(s_src)
    /\ s_src' = Unbound
    /\ s_pc' = "export"
    /\ UNCHANGED <<s_csr, s_m2, s_mats, s_exc, s_result>>
    /\ UNCHANGED notSyrk

\* result = m2.export(); `ok` is whether the native export succeeds
SyrkExport(ok) ==
    /\ s_pc = "export"
    /\ LET res == export(lk_mkl_spexport(s_mats[s_m2.ptr], ok))
       IN  /\ s_log' = Append(s_log, Event("export", s_m2.ptr, IF ok THEN 0 ELSE 1))
           /\ s_result' = res.csr
           /\ s_exc' = IF res.status = "ok" THEN NoError
                       ELSE [NoError EXCEPT !.type = res.status, !.call = "export"]
           /\ s_pc' = IF res.status = "ok" THEN "return" ELSE "raised"
    /\ UNCHANGED <<s_csr, s_src, s_m2, s_mats>>
    /\ UNCHANGED notSyrk

\* return result: the frame goes, and its locals with it
SyrkReturn ==
    /\ s_pc = "return"
    /\ s_log' = s_log \o SparseM_del(s_src) \o SparseM_del(s_m2)
    /\ s_src' = Unbound
    /\ s_m2' = Unbound
    /\ s_pc' = "returned"
    /\ UNCHANGED <<s_csr, s_mats, s_exc, s_result>>
    /\ UNCHANGED notSyrk

\* the caller drops the exception: the traceback's frames go with their locals
SyrkUnwind ==
    /\ s_pc = "raised"
    /\ s_log' = s_log \o SparseM_del(s_src) \o SparseM_del(s_m2)
    /\ s_src' = Unbound
    /\ s_m2' = Unbound
    /\ s_pc' = "failed"
    /\ UNCHANGED <<s_csr, s_mats, s_exc, s_result>>
    /\ UNCHANGED notSyrk

NextSyrk ==
    \/ s_pc = "idle" /\ \E csr \in CSRSet(SyrkMaxRows, SyrkMaxNnz), ok \in BOOLEAN :
                            SyrkCreate(csr, ok)
    \/ \E rv \in StatusCodes : SyrkOrder(rv)
    \/ \E ok \in BOOLEAN : SyrkMultiply(ok)
    \/ SyrkDelSrc
    \/ \E ok \in BOOLEAN : SyrkExport(ok)
    \/ SyrkReturn
    \/ SyrkUnwind


---------------------------------------------------------------------------
(* Properties of csr_syrk.                                                 *)

\* the handles the native library has handed out so far
Created(log) ==
    {log[k].rv : k \in {j \in DOMAIN log : log[j].op \in {"create", "syrk"}
                                            /\ log[j].rv # NULL}}
SourceHandles(log) ==
    {log[k].rv : k \in {j \in DOMAIN log : log[j].op = "create" /\ log[j].rv # NULL}}
FreeCount(log, h) == Cardinality({k \in DOMAIN log : log[k].op = "free" /\ log[k].h = h})
CreatedBefore(log, h, k) ==
    \E j \in 1..(k - 1) : log[j].op \in {"create", "syrk"} /\ log[j].rv = h

SyrkOver == s_pc \in {"returned", "failed"}

\* C1: on every path of csr_syrk (return, failed create, failed order, null
\* product, failed export) no handle is released twice, none is released that
\* was not created, and once the call is over and its frame dropped every
\* created handle has been released exactly once.
C1_ReleasedExactlyOnce ==
    /\ \A k \in DOMAIN s_log :
           s_log[k].op = "free" => s_log[k].h # NULL /\ CreatedBefore(s_log, s_log[k].h, k)
    /\ \A h \in Created(s_log) : FreeCount(s_log, h) <= 1
    /\ SyrkOver => \A h \in Created(s_log) : FreeCount(s_log, h) = 1

\* a call that failed inside export, after both handles were created
C1_Witness ==
    /\ s_pc = "failed"
    /\ s_exc.call = "export"
    /\ Cardinality(Created(s_log)) = 2
    /\ \A h \in Created(s_log) : FreeCount(s_log, h) = 1

\* self_product is called on a handle only after order returned Success on it
ProductAfterOrder ==
    \A k \in DOMAIN s_log :
        s_log[k].op = "syrk" =>
            \E j \in 1..(k - 1) :
                s_log[j].op = "order" /\ s_log[j].h = s_log[k].h /\ s_log[j].rv = 0

\* a non-zero status of order raises, and self_product is never called
OrderFailureRaises ==
    \A j \in DOMAIN s_log :
        (s_log[j].op = "order" /\ s_log[j].rv # 0) =>
            /\ s_pc \in {"raised", "failed"}
            /\ s_exc.type = "RuntimeError" /\ s_exc.code = s_log[j].rv
            /\ \A k \in DOMAIN s_log : s_log[k].op # "syrk"

\* a source handle is released only after self_product has returned on it
ReleasedOnlyAfterProduct ==
    \A k \in DOMAIN s_log :
        (s_log[k].op = "free" /\ s_log[k].h \in SourceHandles(s_log)) =>
            \E j \in 1..(k - 1) : s_log[j].op = "syrk" /\ s_log[j].h = s_log[k].h

\* the same, for the source handles whose order returned Success; no handle is
\* released before or during a self_product on it
ReleasedOnlyAfterProductIfOrdered ==
    \A k \in DOMAIN s_log :
        (s_log[k].op = "free" /\ s_log[k].h \in SourceHandles(s_log)) =>
            /\ \A j \in DOMAIN s_log :
                   (s_log[j].op = "syrk" /\ s_log[j].h = s_log[k].h) => j < k
            /\ (\E i \in DOMAIN s_log :
                    s_log[i].op = "order" /\ s_log[i].h = s_log[k].h /\ s_log[i].rv = 0)
               => \E j \in 1..(k - 1) : s_log[j].op = "syrk" /\ s_log[j].h = s_log[k].h

\* C6 as stated: self_product only after a successful order on the same
\* handle; a non-zero status of order raises and self_product is never called;
\* the source handle is released only after self_product has returned.
C6_AsStated ==
    ProductAfterOrder /\ OrderFailureRaises /\ ReleasedOnlyAfterProduct

\* C6, amended: self_product only after a successful order on the same handle; a
\* non-zero status of order raises and self_product is never called; a source
\* handle whose order succeeded is released only after self_product has
\* returned (one whose order failed is released without any self_product).
C6_OrderThenProduct ==
    ProductAfterOrder /\ OrderFailureRaises /\ ReleasedOnlyAfterProductIfOrdered

\* the source handle released by `del src`, after order and self_product
C6_Witness ==
    /\ s_pc = "export"
    /\ \E i, j, k \in DOMAIN s_log :
          /\ i < j /\ j < k
          /\ s_log[i].op = "order" /\ s_log[i].rv = 0
          /\ s_log[j].op = "syrk" /\ s_log[j].h = s_log[i].h /\ s_log[j].rv # NULL
          /\ s_log[k].op = "free" /\ s_log[k].h = s_log[i].h

\* a source handle whose order failed, released when the failed call's frame goes
OrderFailedWitness ==
    /\ s_pc = "failed"
    /\ \E i, k \in DOMAIN s_log :
          /\ s_log[i].op = "order" /\ s_log[i].rv # 0
          /\ s_log[k].op = "free" /\ s_log[k].h = s_log[i].h

---------------------------------------------------------------------------
(* SparseM.mult_vec.  A buffer is a cell of the heap; an object (an array, *)
(* a list, a Series) has an identity and the buffer that holds its data.   *)

\* what the caller can pass as y:
\*   "ndarray_f64_c"   an ndarray that is float64 and C-contiguous
\*   "ndarray_other"   an ndarray of another dtype or layout
\*   "sequence"        a list or tuple of numbers
\*   "array_like_f64"  no ndarray, but an object that hands out its float64,
\*                     C-contiguous storage (__array__ or the buffer protocol):
\*                     a pandas Series, a memoryview, an array.array('d')
YKinds == {"ndarray_f64_c", "ndarray_other", "sequence", "array_like_f64"}

CallerObj == 1
CallerBuf == 1
Buffers == 1..3
NoObject == [obj |-> 0, buf |-> 0]

\* the first buffer the heap has not handed out
FreshBuf(heap) == CHOOSE b \in Buffers : heap[b] = <<>> /\ \A c \in 1..(b - 1) : heap[c] # <<>>
FreshObj(o) == o.obj + 1

\* np.require(y, np.float64, 'C'): <<the array returned, the heap after>>.  An
\* ndarray that meets the requirements comes back itself; an object that hands
\* out fitting storage comes back as a new array ON that storage; anything
\* else is converted into a new array with storage of its own.
np_require(y, kind, heap) ==
    CASE kind = "ndarray_f64_c" -> <<y, heap>>
      [] kind = "array_like_f64" -> <<[obj |-> FreshObj(y), buf |-> y.buf], heap>>
      [] OTHER -> LET b == FreshBuf(heap)
                  IN  <<[obj |-> FreshObj(y), buf |-> b], [heap EXCEPT ![b] = heap[y.buf]]>>

\* yout.copy(): <<the copy, the heap after>>
np_copy(a, heap) ==
    LET b == FreshBuf(heap)
    IN  <<[obj |-> FreshObj(a), buf |-> b], [heap EXCEPT ![b] = heap[a.buf]]>>

\* yout after   yout = np.require(y, ...);  if yout is y: yout = yout.copy()
\* as <<yout, the heap after>>
OwnY(y, kind, heap) ==
    LET r == np_require(y, kind, heap)
    IN  IF r[1].obj = y.obj THEN np_copy(r[1], r[2]) ELSE r

\* lk_mkl_spmv (from the ABI contract): alpha * A * x + beta * y
spmv(alpha, mat, x, beta, y) ==
    [i \in 1..mat.nrows |->
        alpha * SumOver(1..mat.ncols, [k \in 1..mat.ncols |-> Dense(mat, i - 1, k - 1) * x[k]])
        + beta * y[i]]

InitMultVec ==
    /\ v_pc = "ready"
    /\ v_args = [alpha |-> 0, beta |-> 0, x |-> <<>>, A |-> NoStruct, kind |-> "none"]
    /\ v_heap = [b \in Buffers |-> <<>>]
    /\ v_y = NoObject
    /\ v_ybefore = <<>>
    /\ v_passed = 0
    /\ v_ret = NoObject
    /\ v_exc = NoError

\* A.mult_vec(alpha, x, beta, y) for a caller's y of kind `kind` holding `yval`;
\* the native call returns rv and, when `written`, has stored into its buffer
MultVec(A, alpha, x, beta, kind, yval, rv, written) ==
    /\ v_pc = "ready"
    /\ v_pc' = "done"
    /\ v_args' = [alpha |-> alpha, beta |-> beta, x |-> x, A |-> A, kind |-> kind]
    /\ v_y' = [obj |-> CallerObj, buf |-> CallerBuf]
    /\ v_ybefore' = yval
    /\ LET heap0 == [v_heap EXCEPT ![CallerBuf] = yval]
           own == OwnY(v_y', kind, heap0)
           yout == own[1]
           heap1 == own[2]
           out == spmv(alpha, A, x, beta, heap1[yout.buf])
       IN  /\ v_passed' = yout.buf
           /\ v_heap' = IF written THEN [heap1 EXCEPT ![yout.buf] = out] ELSE heap1
           /\ v_exc' = mkl_check_return(rv, "mkl_sparse_d_mv")
           /\ v_ret' = IF v_exc'.type = "none" THEN yout ELSE NoObject
    /\ UNCHANGED notMultVec

MultVecMatrices(maxRows, maxNnz) ==
    {lk_mkl_spcreate(M) : M \in {C \in CSRSet(maxRows, maxNnz) : C.nrows >= 1}}

NextMultVec ==
    /\ v_pc = "ready"
    /\ \E A \in MultVecMatrices(SyrkMaxRows, SyrkMaxNnz), alpha \in 0..MaxFactor, beta \in 0..MaxFactor,
          kind \in YKinds, rv \in StatusCodes, written \in BOOLEAN :
           \E x \in [1..A.ncols -> 0..1], yval \in [1..A.nrows -> 1..MaxVal] :
               /\ (rv = 0 => written)
               /\ MultVec(A, alpha, x, beta, kind, yval, rv, written)

---------------------------------------------------------------------------
(* Properties of mult_vec.                                                 *)

\* C7: mult_vec never writes the caller's y: whatever y is, the buffer handed
\* to the native call is not y's, y holds the values it held before the call
\* (also when the native call fails), and the vector returned is another buffer.
C7_CallerYUntouched ==
    v_pc = "done" =>
        /\ v_passed # v_y.buf
        /\ v_heap[v_y.buf] = v_ybefore
        /\ (v_exc.type = "none" => v_ret.buf # v_y.buf)

\* the same, for a y that is an ndarray or a plain sequence
YUntouchedUnlessArrayLike ==
    (v_pc = "done" /\ v_args.kind # "array_like_f64") =>
        /\ v_passed # v_y.buf
        /\ v_heap[v_y.buf] = v_ybefore
        /\ (v_exc.type = "none" => v_ret.buf # v_y.buf)

\* a successful call returns alpha * A * x + beta * y
MultVecResult ==
    (v_pc = "done" /\ v_exc.type = "none") =>
        v_heap[v_ret.buf] = spmv(v_args.alpha, v_args.A, v_args.x, v_args.beta, v_ybefore)

---------------------------------------------------------------------------
(* ItemItem: the parameters, and pandas helpers.                           *)

\* an optional parameter: None, or a number
None == [set |-> FALSE, v |-> 0]
Some(v) == [set |-> TRUE, v |-> v]

\* a row of a neighbor table: the neighbor and its similarity
Nbr(j, sim) == [neighbor |-> j, similarity |-> sim]

\* the members of a set of integers, in ascending order
RECURSIVE SortedSeq(_)
SortedSeq(S) ==
    IF S = {} THEN <<>>
    ELSE LET m == CHOOSE x \in S : \A y \in S : x <= y
         IN  <<m>> \o SortedSeq(S \ {m})

\* e put into a table sorted by descending similarity, behind its equals
RECURSIVE InsertDesc(_, _)
InsertDesc(t, e) ==
    IF t = <<>> THEN <<e>>
    ELSE IF Head(t).similarity >= e.similarity THEN <<Head(t)>> \o InsertDesc(Tail(t), e)
    ELSE <<e>> \o t

\* a table sorted by descending similarity, equal rows in their original order
RECURSIVE SortDesc(_)
SortDesc(t) ==
    IF t = <<>> THEN <<>>
    ELSE InsertDesc(SortDesc(SubSeq(t, 1, Len(t) - 1)), t[Len(t)])

Head_n(t, n) == IF n <= 0 THEN <<>> ELSE SubSeq(t, 1, Min(n, Len(t)))

\* the first n rows, in the order stored
NLargestUnsorted(t, n) == Head_n(t, n)

\* Series.nlargest(n): the n largest, in descending order
nlargest(t, n) == Head_n(SortDesc(t), n)

---------------------------------------------------------------------------
(* ItemItem._py_matrix.  uir is the table of normalized ratings: the set   *)
(* of (item, user) pairs rated, and the rating of each.                    *)

UirTables(maxNorm) ==
    UNION {{[rated |-> P, rating |-> [p \in Items \X Users |-> IF p \in P THEN f[p] ELSE 0]] :
                f \in [P -> -1..maxNorm]} : P \in SUBSET (Items \X Users)}

\* joined: the users who rated both the target and item j
CommonUsers(uir, tgt, j) == {u \in Users : <<tgt, u>> \in uir.rated /\ <<j, u>> \in uir.rated}

\* sims = joined.groupby('item').rp.sum(): one row per other item that shares
\* a user with the target, in ascending item order
GroupSums(uir, tgt) ==
    LET others == {j \in Items \ {tgt} : CommonUsers(uir, tgt, j) # {}}
        order == SortedSeq(others)
    IN  [k \in 1..Len(order) |->
            Nbr(order[k],
                SumOver(CommonUsers(uir, tgt, order[k]),
                        [u \in Users |-> uir.rating[<<tgt, u>>] * uir.rating[<<order[k], u>>]]))]

\* a filter that keeps every row
FilterKeepsAll(sims, min_sim) == sims

\* sims[sims >= self.min_similarity], when min_similarity is not None
FilterMinSim(sims, min_sim) ==
    IF min_sim.set THEN SelectSeq(sims, LAMBDA r : r.similarity >= min_sim.v) ELSE sims

\* sims.nlargest(self.save_neighbors), when save_neighbors is not None
KeepSaved(sims, save) == IF save.set THEN nlargest(sims, save.v) ELSE sims

sim_row(self, uir, tgt) ==
    KeepSaved(FilterMinSim(GroupSums(uir, tgt), self.min_similarity), self.save_neighbors)

\* uir.groupby('item', sort=False).apply(sim_row): the neighbors of every item
py_matrix(self, uir) ==
    [i \in Items |-> IF \E u \in Users : <<i, u>> \in uir.rated
                     THEN sim_row(self, uir, i) ELSE <<>>]

OptionalNat(max) == {None} \cup {Some(v) : v \in 0..max}

NoSelf == [max_neighbors |-> None, min_neighbors |-> 1, min_similarity |-> None,
           save_neighbors |-> None]

InitBuild ==
    /\ b_pc = "ready"
    /\ b_uir = [rated |-> {}, rating |-> [p \in Items \X Users |-> 0]]
    /\ b_self = NoSelf
    /\ b_nbrs = [i \in Items |-> <<>>]

\* ItemItem(nnbrs, min_sim=min_sim, save_nbrs=save)._py_matrix(ratings, uir, watch)
Build(min_sim, save, uir) ==
    /\ b_pc = "ready"
    /\ b_pc' = "built"
    /\ b_self' = [NoSelf EXCEPT !.min_similarity = min_sim, !.save_neighbors = save]
    /\ b_uir' = uir
    /\ b_nbrs' = py_matrix(b_self', uir)
    /\ UNCHANGED notBuild

NextBuild ==
    /\ b_pc = "ready"
    /\ \E min_sim \in OptionalNat(MaxMinSim), save \in OptionalNat(MaxSave),
          uir \in UirTables(MaxNorm) :
           Build(min_sim, save, uir)

---------------------------------------------------------------------------
(* Properties of the similarity builder.                                   *)

SortedDescending(t) ==
    \A k \in 1..(Len(t) - 1) : t[k].similarity >= t[k + 1].similarity
SortedByNeighbor(t) ==
    \A k \in 1..(Len(t) - 1) : t[k].neighbor < t[k + 1].neighbor

\* C4: every neighbor list the builder produces holds only neighbors of
\* similarity >= min_similarity and, when save_neighbors is set, at most
\* save_neighbors entries.
C4_Pruned ==
    b_pc = "built" =>
        \A i \in Items :
            /\ b_self.min_similarity.set =>
                   \A k \in DOMAIN b_nbrs[i] :
                       b_nbrs[i][k].similarity >= b_self.min_similarity.v
            /\ b_self.save_neighbors.set => Len(b_nbrs[i]) <= b_self.save_neighbors.v

\* a build in which the threshold removed a neighbor of one item and the cap
\* removed a neighbor of an item
C4_Witness ==
    /\ b_pc = "built"
    /\ b_self.min_similarity.set /\ b_self.save_neighbors.set
    /\ \E i \in Items :
          Len(FilterMinSim(GroupSums(b_uir, i), b_self.min_similarity))
              < Len(GroupSums(b_uir, i))
    /\ \E i \in Items :
          /\ Len(b_nbrs[i]) < Len(FilterMinSim(GroupSums(b_uir, i), b_self.min_similarity))
          /\ Len(b_nbrs[i]) >= 1

\* C5 as stated: every neighbor list is sorted by descending similarity,
\* whether save_neighbors is set or not.
C5_AsStated ==
    b_pc = "built" => \A i \in Items : SortedDescending(b_nbrs[i])

\* C5, amended: when save_neighbors is set every neighbor list is sorted by
\* descending similarity; when it is unset the list is in ascending order of
\* the neighbor's identifier.
C5_SortedWhenSaved ==
    b_pc = "built" =>
        \A i \in Items :
            /\ b_self.save_neighbors.set => SortedDescending(b_nbrs[i])
            /\ ~b_self.save_neighbors.set => SortedByNeighbor(b_nbrs[i])

\* a list that nlargest had to reorder
C5_Witness ==
    /\ b_pc = "built"
    /\ b_self.save_neighbors.set
    /\ \E i \in Items :
          /\ Len(b_nbrs[i]) >= 2
          /\ b_nbrs[i][1].similarity > b_nbrs[i][2].similarity
          /\ b_nbrs[i][1].neighbor > b_nbrs[i][2].neighbor

---------------------------------------------------------------------------
(* ItemItem.predict.  A ratings Series is the set of items it is indexed   *)
(* by and the value at each; a score is absent (NaN) or the quotient       *)
(* num / den.  pandas is the pandas of the code's time (0.23): .loc with a *)
(* list of labels raises KeyError when none of them is in the index.       *)

Series(rated, f) == [rated |-> rated, rating |-> [i \in Items |-> IF i \in rated THEN f[i] ELSE 0]]
NoSeries == Series({}, [i \in Items |-> 0])

Absent == [present |-> FALSE, num |-> 0, den |-> 1]
Score(num, den) == [present |-> TRUE, num |-> num, den |-> den]

\* ratings left as they are
CenterNot(ratings, item_means) == ratings

\* ratings -= model.item_means : the Series is updated in place
Center(ratings, item_means) ==
    Series(ratings.rated, [i \in Items |-> ratings.rating[i] - item_means[i]])

\* nbrhoods[nbrhoods.neighbor.isin(ratings.index)], for one item's rows
RatedRows(rows, ratings) == SelectSeq(rows, LAMBDA r : r.neighbor \in ratings.rated)

\* similarity.rank(method='first', ascending=False) of a row among an item's rows
RankFirst(rows, r) == CHOOSE k \in 1..Len(rows) : SortDesc(rows)[k] = r

\* nbrhoods[ranks <= self.max_neighbors], when max_neighbors is not None
BestRows(rows, max_neighbors) ==
    IF max_neighbors.set
    THEN SelectSeq(rows, LAMBDA r : RankFirst(rows, r) <= max_neighbors.v)
    ELSE rows

\* (idf.similarity * ratings).sum() / idf.similarity.sum()
WeightedMean(rows, ratings) ==
    Score(SumSeq([k \in 1..Len(rows) |-> rows[k].similarity * ratings.rating[rows[k].neighbor]]),
          SumSeq([k \in 1..Len(rows) |-> rows[k].similarity]))

\* results += model.item_means, at one item
AddMean(score, mean) ==
    IF score.present THEN Score(score.num + mean * score.den, score.den) ELSE Absent

\* predict(model, user, items, ratings): the status, the Series returned and
\* the ratings Series after the call
predict(self, model, user, items, given, ratings) ==
    LET mine == IF given THEN ratings ELSE model.rating_matrix[user]
        centered == Center(mine, model.item_means)
        usable == [c \in Items |->
                      BestRows(RatedRows(model.sim_matrix[c], centered), self.max_neighbors)]
        results == [c \in Items |->
                      IF c \in items /\ usable[c] # <<>>
                      THEN AddMean(WeightedMean(usable[c], centered), model.item_means[c])
                      ELSE Absent]
    IN  IF \A c \in items : model.sim_matrix[c] = <<>>
        THEN [status |-> "KeyError", results |-> [c \in Items |-> Absent],
              ratings |-> IF given THEN centered ELSE ratings]
        ELSE [status |-> "ok", results |-> results,
              ratings |-> IF given THEN centered ELSE ratings]

\* the similarity tables of a model: every pair of items is unrelated or has a
\* similarity, and an item's rows are stored by ascending neighbor or by
\* descending similarity
SimMatrices(simValues) ==
    UNION {{[i \in Items |->
                LET byItem == SelectSeq([j \in 1..Cardinality(Items) |-> Nbr(j, IF j = i THEN 0 ELSE sym[{i, j}])],
                                        LAMBDA r : r.similarity # 0)
                IN  IF sorted THEN SortDesc(byItem) ELSE byItem] :
            sorted \in BOOLEAN} :
        sym \in [{P \in SUBSET Items : Cardinality(P) = 2} -> {0} \cup simValues]}

RatingSeries(values) ==
    UNION {{Series(R, f) : f \in [Items -> values]} : R \in SUBSET Items}

CandidateSets == {{c} : c \in Items} \cup {Items}

InitPredict ==
    /\ p_pc = "ready"
    /\ p_self = NoSelf
    /\ p_model = [item_means |-> [i \in Items |-> 0], sim_matrix |-> [i \in Items |-> <<>>],
                  rating_matrix |-> [u \in Users |-> NoSeries]]
    /\ p_model0 = p_model
    /\ p_args = [user |-> 1, items |-> {}, given |-> FALSE]
    /\ p_ratings = NoSeries
    /\ p_ratings0 = NoSeries
    /\ p_status = "none"
    /\ p_results = [c \in Items |-> Absent]

\* ItemItem(nnbrs, min_nbrs).predict(model, user, items, ratings), where ratings
\* is None (given = FALSE) or the caller's Series
Predict(self, model, user, items, given, ratings) ==
    /\ p_pc = "ready"
    /\ p_pc' = "done"
    /\ p_self' = self
    /\ p_model0' = model
    /\ p_model' = model
    /\ p_args' = [user |-> user, items |-> items, given |-> given]
    /\ p_ratings0' = ratings
    /\ LET out == predict(self, model, user, items, given, ratings)
       IN  /\ p_status' = out.status
           /\ p_results' = out.results
           /\ p_ratings' = out.ratings
    /\ UNCHANGED notPredict

Selves(maxNbrs, maxMinNbrs) ==
    {[NoSelf EXCEPT !.max_neighbors = nnbrs, !.min_neighbors = min_nbrs] :
        nnbrs \in {None} \cup {Some(v) : v \in 1..maxNbrs}, min_nbrs \in 1..maxMinNbrs}

\* the models: when the caller passes ratings the rating matrix is not read
Models(rows) ==
    {[item_means |-> means, sim_matrix |-> sims,
      rating_matrix |-> [u \in Users |-> IF u = 1 THEN row ELSE NoSeries]] :
        means \in [Items -> MeanValues], sims \in SimMatrices(SimValues), row \in rows}

NextPredict ==
    /\ p_pc = "ready"
    /\ \E self \in Selves(MaxNbrs, MaxMinNbrs), items \in CandidateSets :
          \/ \E model \in Models({NoSeries}), ratings \in RatingSeries(RatingValues) :
                 Predict(self, model, 1, items, TRUE, ratings)
          \/ \E model \in Models(RatingSeries(RatingValues) \ {NoSeries}) :
                 Predict(self, model, 1, items, FALSE, NoSeries)

---------------------------------------------------------------------------
(* Properties of predict.                                                  *)

\* the user's ratings as they were when predict was called
UserRatings ==
    IF p_args.given THEN p_ratings0 ELSE p_model0.rating_matrix[p_args.user]

\* the usable neighbors of candidate c, as positions in its stored rows: the
\* rows whose neighbor the user rated, cut to the max_neighbors most similar
\* (of equally similar rows the one stored first wins)
RatedPositions(c) ==
    {k \in DOMAIN p_model0.sim_matrix[c] :
        p_model0.sim_matrix[c][k].neighbor \in UserRatings.rated}
Beats(c, j, k) ==
    \/ p_model0.sim_matrix[c][j].similarity > p_model0.sim_matrix[c][k].similarity
    \/ /\ p_model0.sim_matrix[c][j].similarity = p_model0.sim_matrix[c][k].similarity
       /\ j < k
UsablePositions(c) ==
    IF p_self.max_neighbors.set
    THEN {k \in RatedPositions(c) :
            Cardinality({j \in RatedPositions(c) : Beats(c, j, k)}) < p_self.max_neighbors.v}
    ELSE RatedPositions(c)

\* sum over the usable neighbors of similarity * (rating - item mean), and of
\* similarity
WeightedSum(c) ==
    SumOver(UsablePositions(c),
        [k \in DOMAIN p_model0.sim_matrix[c] |->
            p_model0.sim_matrix[c][k].similarity
            * (UserRatings.rating[p_model0.sim_matrix[c][k].neighbor]
               - p_model0.item_means[p_model0.sim_matrix[c][k].neighbor])])
SimilaritySum(c) ==
    SumOver(UsablePositions(c),
        [k \in DOMAIN p_model0.sim_matrix[c] |-> p_model0.sim_matrix[c][k].similarity])

\* C2: a candidate with fewer usable neighbors than min_neighbors gets no
\* numeric score.
C2_AbsentBelowMinNeighbors ==
    p_pc = "done" =>
        \A c \in p_args.items :
            Cardinality(UsablePositions(c)) < p_self.min_neighbors => ~p_results[c].present

\* a candidate without any usable neighbor gets no numeric score
AbsentWithoutNeighbors ==
    p_pc = "done" =>
        \A c \in p_args.items : UsablePositions(c) = {} => ~p_results[c].present

\* C3: predict has no side effects: after a call (that returned) the model and
\* the caller's ratings hold the values they held before, so that the same call
\* made again returns the same scores.
C3_NoSideEffects ==
    (p_pc = "done" /\ p_status = "ok") =>
        /\ p_model = p_model0
        /\ p_ratings = p_ratings0
        /\ predict(p_self, p_model, p_args.user, p_args.items, p_args.given, p_ratings).results
               = p_results

\* the model is left alone, and so is everything when no ratings are passed
ModelUnchanged ==
    p_pc = "done" =>
        /\ p_model = p_model0
        /\ ~p_args.given =>
               /\ p_ratings = p_ratings0
               /\ predict(p_self, p_model, p_args.user, p_args.items, FALSE, p_ratings).results
                      = p_results

\* C10: a candidate with at least min_neighbors usable neighbors is scored
\*   (sum of similarity_i * (rating_i - item_mean[i])) / (sum of similarity_i)
\*       + item_mean[candidate]
\* over its usable neighbors i: the stored neighbors the user rated, cut to the
\* max_neighbors most similar when max_neighbors is set.
C10_Score ==
    p_pc = "done" =>
        \A c \in p_args.items :
            Cardinality(UsablePositions(c)) >= p_self.min_neighbors =>
                /\ p_status = "ok"
                /\ p_results[c].present
                /\ p_results[c].num * SimilaritySum(c)
                       = (WeightedSum(c) + p_model0.item_means[c] * SimilaritySum(c))
                             * p_results[c].den

\* a candidate scored from the more similar of two rated neighbors, stored
\* second, with item means that are not all zero
C10_Witness ==
    /\ p_pc = "done"
    /\ p_self.max_neighbors = Some(1)
    /\ \E c \in p_args.items :
          /\ RatedPositions(c) = {1, 2}
          /\ UsablePositions(c) = {2}
          /\ p_model0.item_means[p_model0.sim_matrix[c][2].neighbor] # 0
          /\ p_model0.item_means[c] # 0
          /\ p_results[c].present

---------------------------------------------------------------------------
(* The specifications.                                                     *)

Init == InitExport /\ InitSyrk /\ InitMultVec /\ InitBuild /\ InitPredict

SpecExport == Init /\ [][NextExport]_vars

SpecSyrk == Init /\ [][NextSyrk]_vars

SpecMultVec == Init /\ [][NextMultVec]_vars

SpecBuild == Init /\ [][NextBuild]_vars

SpecPredict == Init /\ [][NextPredict]_vars


===========================================================================
